---- MODULE Spec2Model ----
(***************************************************************************)
(* A model of the file catalog's metadata consistency engine:              *)
(* src/file_catalog/mongo.py (the store wrapper) and                       *)
(* src/file_catalog/server.py (the request handlers).                      *)
(*                                                                         *)
(* The three Mongo collections are sequences of documents in natural       *)
(* (insertion) order.  A document is a function from field names to        *)
(* values.  Every request handler is a coroutine: it runs in steps, one    *)
(* step per `await` on the store, and the steps of different requests      *)
(* interleave freely.                                                      *)
(***************************************************************************)
EXTENDS Integers, Sequences, FiniteSets, TLC

\* ------------------------------------------------------------------ bounds

\* Number of request slots, i.e. of requests that can be in flight at once.
NumReqs == 2
\* How often, in one behaviour, a request may arrive while another is in
\* flight; the requests are served one after the other from then on.
MaxOverlaps == 1
\* Longest cursor of the windowing specification.
MaxDocs == 4
\* Largest start / limit of the windowing specification.
MaxWindow == 5

Reqs == 1..NumReqs

\* ------------------------------------------------------------ value domains

UUIDs == {"u1", "u2"}
LogicalNames == {"n1", "n2"}
Checksums == {"c1", "c2"}
Locs == {"a", "b", "c"}

\* ----------------------------------------------------------------- helpers

Range(s) == {s[i] : i \in 1..Len(s)}

\* Python's None / a find_one() that matched nothing.
NoDoc == [none |-> TRUE]

\* dict.update(): the fields of `patch` win.
Merge(doc, patch) ==
    [k \in (DOMAIN doc) \cup (DOMAIN patch) |->
        IF k \in DOMAIN patch THEN patch[k] ELSE doc[k]]

\* `del d[k]`
Without(doc, k) == [j \in (DOMAIN doc) \ {k} |-> doc[j]]

\* json_encode / json_decode of a query: the stored form is a string that
\* carries the filter; decoding gives the filter back.
json_encode(q) == <<"json", q>>
json_decode(s) == s[2]

\* Whether the server's write results carry nModified: without it,
\* result.modified_count is None.
VARIABLE nModified

\* --------------------------------------------------------- store capability

\* Weakened filter: a filter on an array field matches only the array that
\* holds the value and nothing else.
Matches_WholeArray(doc, filters) ==
    \A k \in DOMAIN filters :
        /\ k \in DOMAIN doc
        /\ IF k = "locations"
             THEN doc[k] = <<filters[k]>>
             ELSE doc[k] = filters[k]

\* The filter {field: {"$in": values}}.
In(field, values) == [field |-> field, in |-> values]

\* A Mongo filter: equality on every field it names, or {field: {"$in": ...}}.
\* An equality filter on an array field (locations, also through $elemMatch)
\* matches a document one of whose elements is the value; $in matches a
\* document whose field is one of the values.
Matches(doc, filters) ==
    IF DOMAIN filters = {"field", "in"}
      THEN /\ filters.field \in DOMAIN doc
           /\ doc[filters.field] \in Range(filters.in)
      ELSE \A k \in DOMAIN filters :
              /\ k \in DOMAIN doc
              /\ IF k = "locations"
                   THEN filters[k] \in Range(doc[k])
                   ELSE doc[k] = filters[k]

\* Positions of the documents of `coll` matching `filters`, in natural order.
MatchingIdx(coll, filters) == {i \in 1..Len(coll) : Matches(coll[i], filters)}

Min(S) == CHOOSE x \in S : \A y \in S : x <= y

\* find_one(): the first matching document, or None.
find_one(coll, filters) ==
    IF MatchingIdx(coll, filters) = {} THEN NoDoc
    ELSE coll[Min(MatchingIdx(coll, filters))]

\* find(): the cursor over the matching documents, in natural order.
RECURSIVE find(_, _)
find(coll, filters) ==
    IF coll = <<>> THEN <<>>
    ELSE IF Matches(Head(coll), filters)
           THEN <<Head(coll)>> \o find(Tail(coll), filters)
           ELSE find(Tail(coll), filters)

\* The keys a document contributes to an index on field k.  A missing field
\* is indexed as null; an index on an array field holds one key per element.
IndexKeys(doc, k) ==
    IF k \notin DOMAIN doc THEN {<<>>}
    ELSE IF k = "locations"
           THEN (IF doc[k] = <<>> THEN {<<>>} ELSE {<<x>> : x \in Range(doc[k])})
           ELSE {<<doc[k]>>}

\* Weakened index set: the index on locations is not unique.
UniqueFiles_NoLocations == {"uuid", "logical_name"}
\* The unique indexes of the three collections.
UniqueFiles == {"uuid", "logical_name", "locations"}
UniqueCollections == {"uuid"}
UniqueSnapshots == {"uuid"}

\* Would writing `doc` at position `at` (0: a new document) break a unique
\* index?  A unique index compares a document with the others only.
DupKey(coll, at, doc, unique) ==
    \E j \in (1..Len(coll)) \ {at} : \E k \in unique :
        IndexKeys(coll[j], k) \cap IndexKeys(doc, k) # {}

\* insert_one
insert_one(coll, doc, unique) ==
    IF DupKey(coll, 0, doc, unique)
      THEN [coll |-> coll, exc |-> "DuplicateKeyError"]
      ELSE [coll |-> Append(coll, doc), exc |-> "none"]

\* Weakened write: an upsert, which inserts the document when none matches.
write_one_Upsert(coll, uuid, new, unique) ==
    LET idx == MatchingIdx(coll, [uuid |-> uuid]) IN
    IF idx = {}
      THEN [coll |-> Append(coll, Merge([uuid |-> uuid], new)), exc |-> "none",
            modified_count |-> 1]
    ELSE LET i == Min(idx) IN
         IF DupKey(coll, i, new, unique)
           THEN [coll |-> coll, exc |-> "DuplicateKeyError", modified_count |-> 0]
           ELSE [coll |-> [coll EXCEPT ![i] = new], exc |-> "none",
                 modified_count |-> IF new = coll[i] THEN 0 ELSE 1]

\* update_one / replace_one on {"uuid": uuid}: `new` is the document the
\* first match becomes.  modified_count is 0 when nothing matched or when the
\* document did not change.
write_one(coll, uuid, new, unique) ==
    LET idx == MatchingIdx(coll, [uuid |-> uuid]) IN
    IF idx = {} THEN [coll |-> coll, exc |-> "none", modified_count |-> 0]
    ELSE LET i == Min(idx) IN
         IF DupKey(coll, i, new, unique)
           THEN [coll |-> coll, exc |-> "DuplicateKeyError", modified_count |-> 0]
           ELSE [coll |-> [coll EXCEPT ![i] = new], exc |-> "none",
                 modified_count |-> IF new = coll[i] THEN 0 ELSE 1]

\* The document {"uuid": uuid} selects, or None.
Target(coll, uuid) == find_one(coll, [uuid |-> uuid])

\* Weakened removal: position i goes, and everything after it.
RemoveAt_Truncate(s, i) == SubSeq(s, 1, i - 1)

\* A sequence without position i.
RemoveAt(s, i) == [j \in 1..(Len(s) - 1) |-> IF j < i THEN s[j] ELSE s[j + 1]]

\* $push with $each: the values appended as they come.
AddToSet_Push(arr, values) == arr \o values

\* $addToSet with $each: the values not yet in the array, appended once each.
RECURSIVE AddToSet(_, _)
AddToSet(arr, values) ==
    IF values = <<>> THEN arr
    ELSE IF Head(values) \in Range(arr)
           THEN AddToSet(arr, Tail(values))
           ELSE AddToSet(Append(arr, Head(values)), Tail(values))

\* ------------------------------------------------------ mongo.py: class Mongo

\* None: `limit` absent; a modified_count that cannot be determined.
None == -1

\* result.modified_count
modified_count(res) == IF nModified THEN res.modified_count ELSE None

\* A check of the write result that takes None for a failure.
Raised_Strict(res) ==
    IF res.exc # "none" THEN res.exc
    ELSE IF modified_count(res) # 1 THEN "Exception"
    ELSE "none"

\* What a Mongo method raises after a write whose result is `res`: the
\* store's own error; nothing (a warning is logged) when modified_count is
\* None; Exception when it is a number other than 1.
Raised(res) ==
    IF res.exc # "none" THEN res.exc
    ELSE IF modified_count(res) = None THEN "none"
    ELSE IF modified_count(res) # 1 THEN "Exception"
    ELSE "none"

\* Weakened lookup: it finds nothing.
get_file_Nothing(fs, filters) == NoDoc

\* Mongo.get_file
get_file(fs, filters) == find_one(fs, filters)

\* Mongo.create_file: insert_one; the result of a successful insert always
\* carries an inserted_id.
create_file(fs, metadata) == insert_one(fs, metadata, UniqueFiles)

\* Weakened update: it reports success and writes nothing.
update_file_NoWrite(fs, uuid, metadata) == [coll |-> fs, exc |-> "none"]

\* Mongo.update_file: update_one({"uuid": uuid}, {"$set": metadata})
update_file(fs, uuid, metadata) ==
    LET res == write_one(fs, uuid, Merge(Target(fs, uuid), metadata), UniqueFiles)
    IN  [coll |-> res.coll, exc |-> Raised(res)]

\* Mongo.replace_file: replace_one({"uuid": metadata["uuid"]}, metadata)
replace_file(fs, metadata) ==
    LET res == write_one(fs, metadata.uuid, metadata, UniqueFiles)
    IN  [coll |-> res.coll, exc |-> Raised(res)]

\* Mongo.delete_file: delete_one(filters); Exception unless one was deleted.
delete_file(fs, filters) ==
    LET idx == MatchingIdx(fs, filters) IN
    IF idx = {} THEN [coll |-> fs, exc |-> "Exception"]
    ELSE [coll |-> RemoveAt(fs, Min(idx)), exc |-> "none"]

\* Weakened append: only the stamp is written.
AddedTo_StampOnly(doc, metadata, date) == Merge(doc, [meta_modify_date |-> date])

\* The document after {"$addToSet": {key: {"$each": metadata[key]}},
\* "$set": {"meta_modify_date": date}}.
AddedTo(doc, metadata, date) ==
    [k \in (DOMAIN doc) \cup (DOMAIN metadata) \cup {"meta_modify_date"} |->
        IF k = "meta_modify_date" THEN date
        ELSE IF k \in DOMAIN metadata
               THEN AddToSet(IF k \in DOMAIN doc THEN doc[k] ELSE <<>>, metadata[k])
               ELSE doc[k]]

\* Mongo.append_distinct_elements_to_file; `date` is the utcnow() it takes.
append_distinct_elements_to_file(fs, uuid, metadata, date) ==
    LET res == write_one(fs, uuid, AddedTo(Target(fs, uuid), metadata, date),
                         UniqueFiles)
    IN  [coll |-> res.coll, exc |-> Raised(res)]

\* Weakened lookup of a collection: it finds nothing.
get_collection_Nothing(cs, filters) == NoDoc

\* Mongo.get_collection / create_collection
get_collection(cs, filters) == find_one(cs, filters)
create_collection(cs, metadata) == insert_one(cs, metadata, UniqueCollections)

\* Weakened lookup of a snapshot: it finds nothing.
get_snapshot_Nothing(ss, filters) == NoDoc

\* A store that keeps the latest snapshot only.
create_snapshot_Latest(ss, metadata) == [coll |-> <<metadata>>, exc |-> "none"]

\* Mongo.get_snapshot / create_snapshot
get_snapshot(ss, filters) == find_one(ss, filters)
create_snapshot(ss, metadata) == insert_one(ss, metadata, UniqueSnapshots)

\* Mongo._limit_results: the rows the generator yields.  p is the position
\* of the cursor, i the generator's counter.
\*     i = 0
\*     async for row in cursor:
\*         if i < start: continue
\*         yield row
\*         if end and i >= end: return
\*         i += 1
\* Weakened loop: it skips no row, whatever `start` is.
RECURSIVE limit_loop_NoSkip(_, _, _, _, _)
limit_loop_NoSkip(cursor, end, start, p, i) ==
    IF p > Len(cursor) THEN <<>>
    ELSE <<cursor[p]>> \o
         (IF end # None /\ end # 0 /\ i >= end THEN <<>>
          ELSE limit_loop_NoSkip(cursor, end, start, p + 1, i + 1))

RECURSIVE limit_loop(_, _, _, _, _)
limit_loop(cursor, end, start, p, i) ==
    IF p > Len(cursor) THEN <<>>
    ELSE IF i < start THEN limit_loop(cursor, end, start, p + 1, i)
    ELSE <<cursor[p]>> \o
         (IF end # None /\ end # 0 /\ i >= end THEN <<>>
          ELSE limit_loop(cursor, end, start, p + 1, i + 1))

limit_results(cursor, limit, start) ==
    limit_loop(cursor, IF limit # None THEN start + limit ELSE None, start, 1, 0)

\* The `keys` argument of the find methods: None, a list of field names, the
\* AllKeys sentinel, or a value of another type.
NoKeys == [kind |-> "None", list |-> <<>>]
AllKeys == [kind |-> "AllKeys", list |-> <<>>]
KeyList(l) == [kind |-> "list", list |-> l]
OtherKeys == [kind |-> "other", list |-> <<>>]

\* Mongo._get_projection.  A projection maps field names to booleans;
\* `default` is a projection too, None and {} (both falsy) being the empty
\* one.  `not keys` holds of None and of the empty list.
get_projection(keys, default) ==
    LET projection == [_id |-> FALSE] IN
    IF keys.kind = "None" \/ (keys.kind = "list" /\ keys.list = <<>>)
      THEN (IF DOMAIN default # {} THEN Merge(projection, default) ELSE projection)
    ELSE IF keys.kind = "AllKeys" THEN projection
    ELSE IF keys.kind = "list"
      THEN Merge(projection, [k \in Range(keys.list) |-> TRUE])
    ELSE [TypeError |-> TRUE]

\* What find() returns of a document under a projection: with fields
\* included, those fields, and "_id" unless it is excluded; with fields
\* excluded only, every other field.
Projected(doc, projection) ==
    LET incl == {k \in DOMAIN projection : projection[k]}
        excl == {k \in DOMAIN projection : ~projection[k]}
        kept == IF incl # {} THEN (incl \cup {"_id"}) \ excl
                ELSE (DOMAIN doc) \ excl
    IN  [k \in (DOMAIN doc) \cap kept |-> doc[k]]

\* A find that pages by default: without a limit it returns one row.
find_files_Paged(fs, query, keys, limit, start) ==
    LET projection == get_projection(keys, [uuid |-> TRUE, logical_name |-> TRUE])
        cursor == find(fs, query)
        rows   == limit_results(cursor, limit, start)
        paged  == IF limit = None /\ Len(rows) > 1 THEN <<rows[1]>> ELSE rows
    IN  [n \in 1..Len(paged) |-> Projected(paged[n], projection)]

\* Mongo.find_files
find_files(fs, query, keys, limit, start) ==
    LET projection == get_projection(keys, [uuid |-> TRUE, logical_name |-> TRUE])
        cursor == find(fs, query)
        rows   == limit_results(cursor, limit, start)
    IN  [n \in 1..Len(rows) |-> Projected(rows[n], projection)]

\* ------------------------------------------------------------------- state

VARIABLES
    files,        \* client.files: the file records, in natural order
    collections,  \* client.collections
    snapshots,    \* client.snapshots
    req,          \* the requests: slot -> the handler's locals and position
    overlaps,     \* how often a request arrived while another was in flight
    cursor,       \* windowing specification: the documents the cursor produces
    limit,        \* windowing specification: limit, or None
    start,        \* windowing specification: start
    results,      \* windowing specification: list(_limit_results(...)), once run
    projection    \* projection specification: keys, default, a document of
                  \* the store, and what _get_projection and find() make of them

store == <<files, collections, snapshots>>
window == <<cursor, limit, start, results, projection, nModified>>
vars == <<files, collections, snapshots, req, overlaps, cursor, limit, start, results,
          projection, nModified>>

\* No projection is being built.
NoProjection ==
    [keys |-> NoKeys, default |-> <<>>, doc |-> NoDoc, ran |-> FALSE,
     projection |-> <<>>, row |-> NoDoc]

\* A slot that serves no request.  op: the handler; pc: its position (the
\* await it is suspended at); uuid: the id in the URL; metadata: the decoded
\* body; db_file, ret, new_locations, n: the handler's locals of those names
\* (n: position in the loop over the locations); status, detail: the
\* response, once sent (detail: reason, file, location of send_error);
\* wrote: whether the handler got as far as a store write that succeeded.
Idle ==
    [op |-> "none", pc |-> "idle", uuid |-> "", metadata |-> NoDoc,
     db_file |-> NoDoc, ret |-> NoDoc, new_locations |-> <<>>, n |-> 0,
     status |-> 0, detail |-> <<>>, wrote |-> FALSE]

InFlight(r) == req[r].pc \notin {"idle", "done"}

\* A new request takes the lowest slot that serves none.
Free(r) == req[r].pc = "idle" /\ \A q \in Reqs : q < r => req[q].pc # "idle"

Quiet == \A q \in Reqs : req[q].pc = "idle"

\* No response is on its way out.  A handler runs from its last await
\* through finish() and on_finish() without yielding to the event loop, so
\* no other handler takes a step in between.
Settled == \A q \in Reqs : req[q].pc # "done"

\* A request of workload w arrives at slot r.
Arrive(r, w) ==
    /\ Settled
    /\ Free(r)
    /\ Quiet \/ overlaps < w.overlaps
    /\ overlaps' = IF Quiet THEN overlaps ELSE overlaps + 1

\* The event loop resumes the handler `op` of slot r at its await `pc`.
At(r, op, pc) == Settled /\ req[r].op = op /\ req[r].pc = pc

\* The response is sent: the handler returns.
Finish(rq, status, detail) ==
    [rq EXCEPT !.pc = "done", !.status = status, !.detail = detail, !.n = 0]

\* An exception leaves the coroutine: Tornado answers 500.
InternalError(rq) == Finish(rq, 500, <<>>)

Sent(r, status) == req[r].pc = "done" /\ req[r].status = status

\* The dates a document carries.
DatesOf(doc) ==
    {doc[k] : k \in (DOMAIN doc) \cap {"meta_modify_date", "creation_date"}}

\* The dates the system holds for the record of id u: in the stored
\* documents of that id and in the locals of the requests that are about it.
DatesHeld(u) ==
    UNION ({DatesOf(files[i]) : i \in MatchingIdx(files, [uuid |-> u])}
           \cup {DatesOf(collections[i]) : i \in MatchingIdx(collections, [uuid |-> u])}
           \cup {DatesOf(snapshots[i]) : i \in MatchingIdx(snapshots, [uuid |-> u])}
           \cup {DatesOf(req[q].metadata) \cup DatesOf(req[q].db_file)
                    \cup DatesOf(req[q].ret) :
                  q \in {x \in Reqs : req[x].uuid = u
                                       \/ Matches(req[x].metadata, [uuid |-> u])}})

\* datetime.utcnow(), taken to stamp the record of id u.  The code never
\* orders two dates and never compares the dates of two records: it stores a
\* date and, in the store's modified_count, tells a changed document from an
\* unchanged one.  So a stamp is modelled as a date that differs from every
\* date the system still holds for the record: the first such one.
utcnow(u) ==
    Min({d \in 1..(Cardinality(DatesHeld(u)) + 1) : d \notin DatesHeld(u)})

\* ----------------------------------------- schema/validation.py, pathfinder.py

RequiredFields == {"uuid", "logical_name", "checksum", "locations"}

\* Validation.validate_metadata_modification: the document is complete.
validate_metadata_modification(metadata) ==
    /\ RequiredFields \subseteq DOMAIN metadata
    /\ metadata.locations # <<>>

\* Validation.validate_metadata_creation
validate_metadata_creation(metadata) == validate_metadata_modification(metadata)

\* Validation.has_forbidden_attributes_modification: the id is immutable.
has_forbidden_attributes_modification(metadata, db_file) ==
    "uuid" \in DOMAIN metadata /\ metadata.uuid # db_file.uuid

\* pathfinder.contains_existing_filepaths: the first of the metadata's
\* locations that a record (other than `uuid`, when given) already holds, as
\* <<location, that record>>; <<>> when there is none.
RECURSIVE existing_filepath(_, _, _)
existing_filepath(fs, locations, uuid) ==
    IF locations = <<>> THEN <<>>
    ELSE LET check == get_file(fs, [locations |-> Head(locations)]) IN
         IF check # NoDoc /\ (uuid = "" \/ check.uuid # uuid)
           THEN <<Head(locations), check>>
           ELSE existing_filepath(fs, Tail(locations), uuid)

contains_existing_filepaths(fs, metadata, uuid) ==
    IF "locations" \in DOMAIN metadata
      THEN existing_filepath(fs, metadata.locations, uuid)
      ELSE <<>>

\* ---------------------------------------------------------------- requests

\* What the clients send.  A workload gives, per kind of request, the set
\* of bodies the requests are drawn from, and the ids in the URL: `uuids`
\* for POST .../locations, `targets` for PATCH, PUT and DELETE.

\* The workload of the requests served one at a time.  Location lists: one
\* location, two, the same one twice; none, in a PATCH.  Location c comes with POST
\* .../locations only.
SeqWorkload ==
    [overlaps |-> 0,
     uuids   |-> UUIDs,
     targets |-> UUIDs,
     create  |-> [uuid : UUIDs, logical_name : LogicalNames, checksum : Checksums,
                  locations : {<<"a">>, <<"b">>, <<"a", "b">>, <<"b", "b">>}],
     add     |-> {<<"a">>, <<"b">>, <<"c">>, <<"c", "b">>, <<"c", "c">>},
     update  |-> [logical_name : LogicalNames] \cup [checksum : Checksums]
                   \cup [locations : {<<>>, <<"a">>, <<"b">>}] \cup [uuid : UUIDs],
     replace |-> [logical_name : LogicalNames, checksum : Checksums,
                  locations : {<<"a">>, <<"b">>}]]

\* The workload of the requests served concurrently: record u1 is n1, record
\* u2 is n2.
RaceWorkload ==
    [overlaps |-> MaxOverlaps,
     uuids   |-> UUIDs,
     targets |-> {"u1"},
     create  |-> [uuid : {"u1"}, logical_name : {"n1"}, checksum : {"c1"},
                  locations : {<<"a">>, <<"b">>, <<"c">>}]
                 \cup [uuid : {"u2"}, logical_name : {"n2"}, checksum : {"c1"},
                       locations : {<<"a">>, <<"b">>}],
     add     |-> {<<"b">>, <<"c">>, <<"b", "c">>},
     update  |-> [logical_name : {"n2"}] \cup [checksum : {"c2"}],
     replace |-> [logical_name : {"n1"}, checksum : {"c2"}, locations : {<<"c">>}]]

\* The workload of the replicas: record u1, created with location a, gets
\* location b by POST .../locations and is offered the replica b, c.
ReplicaWorkload ==
    [overlaps |-> MaxOverlaps,
     uuids   |-> {"u1"},
     targets |-> {"u1"},
     create  |-> [uuid : {"u1"}, logical_name : {"n1"}, checksum : {"c1"},
                  locations : {<<"a">>, <<"b", "c">>}],
     add     |-> {<<"b">>},
     update  |-> {[checksum |-> "c2"]},
     replace |-> {[logical_name |-> "n1", checksum |-> "c1",
                   locations |-> <<"a">>]}]

\* The workload of the replacements: one record, which a PATCH gives a field
\* beyond the required ones and a PUT replaces by a document without it.
ReplaceWorkload ==
    [overlaps |-> 0,
     uuids   |-> {"u1"},
     targets |-> {"u1"},
     create  |-> [uuid : {"u1"}, logical_name : {"n1"}, checksum : {"c1"},
                  locations : {<<"a">>, <<"b">>}],
     add     |-> {<<"c">>},
     update  |-> {[data_type |-> "real"], [checksum |-> "c2"]},
     replace |-> [logical_name : {"n1", "n2"}, checksum : {"c1"},
                  locations : {<<"a">>}]
                 \cup {[uuid |-> "u2", logical_name |-> "n2", checksum |-> "c2",
                        locations |-> <<"b">>, data_type |-> "simulation"]}]

\* The workload of the write results: one record, requests served
\* concurrently.
WriteResultWorkload ==
    [overlaps |-> MaxOverlaps,
     uuids   |-> {"u1"},
     targets |-> {"u1"},
     create  |-> [uuid : {"u1"}, logical_name : {"n1"}, checksum : {"c1"},
                  locations : {<<"a">>, <<"b">>}],
     add     |-> {<<"c">>},
     update  |-> {[checksum |-> "c2"]},
     replace |-> {[logical_name |-> "n1", checksum |-> "c1", locations |-> <<"a">>]}]

\* uuid1(): an id nothing in the system holds.
FreshUUIDs ==
    UUIDs \ ({files[i].uuid : i \in 1..Len(files)}
             \cup {req[q].metadata.uuid : q \in {x \in Reqs :
                       "uuid" \in DOMAIN req[x].metadata}})

\* ------------------------------------------- server.py: FilesHandler.post

\* Lines 471-480: decode the body, default the uuid, validate, stamp.
BeginCreate(r, w) ==
    /\ Arrive(r, w)
    /\ \E body \in w.create :
       \E u \in (IF "uuid" \in DOMAIN body THEN {body.uuid} ELSE FreshUUIDs) :
          LET metadata == Merge(body, [uuid |-> u])
              rq == [Idle EXCEPT !.op = "create", !.metadata = metadata]
          IN  IF ~validate_metadata_creation(metadata)
                THEN /\ req' = [req EXCEPT ![r] = Finish(rq, 400, <<"validation">>)]
                ELSE /\ req' = [req EXCEPT ![r] =
                            [rq EXCEPT !.pc = "pathfinder",
                                       !.metadata = Merge(metadata,
                                           [meta_modify_date |-> utcnow(u)])]]
    /\ UNCHANGED <<store, window>>

\* Lines 481-482: the location pre-check.
CreateCheckPaths(r) ==
    /\ At(r, "create", "pathfinder")
    /\ LET hit == contains_existing_filepaths(files, req[r].metadata, "") IN
       req' = [req EXCEPT ![r] =
                 IF hit # <<>>
                   THEN Finish(@, 409, <<"location already exists", hit[2].uuid, hit[1]>>)
                   ELSE [@ EXCEPT !.pc = "get_file"]]
    /\ UNCHANGED <<store, overlaps, window>>

\* The lookup by uuid without the test for a replica already added: a
\* record of the same checksum always gets the incoming locations.
CreateGetFile_NoReplicaTest(r) ==
    /\ At(r, "create", "get_file")
    /\ LET metadata == req[r].metadata
           db_file == get_file(files, [uuid |-> metadata.uuid])
       IN  req' = [req EXCEPT ![r] =
             IF db_file = NoDoc
               THEN [@ EXCEPT !.pc = "create_file"]
             ELSE IF db_file.checksum # metadata.checksum
               THEN Finish([@ EXCEPT !.db_file = db_file], 409,
                           <<"uuid already exists", db_file.uuid>>)
             ELSE [@ EXCEPT !.pc = "update_file",
                            !.db_file = [db_file EXCEPT !.locations =
                                            @ \o metadata.locations]]]
    /\ UNCHANGED <<store, overlaps, window>>

\* Lines 484-500: the lookup by uuid and the decision it leads to.
CreateGetFile(r) ==
    /\ At(r, "create", "get_file")
    /\ LET metadata == req[r].metadata
           db_file == get_file(files, [uuid |-> metadata.uuid])
       IN  req' = [req EXCEPT ![r] =
             IF db_file = NoDoc
               THEN [@ EXCEPT !.pc = "create_file"]
             ELSE IF db_file.checksum # metadata.checksum
               THEN Finish([@ EXCEPT !.db_file = db_file], 409,
                           <<"uuid already exists", db_file.uuid>>)
             ELSE IF \E f \in Range(metadata.locations) :
                         f \in Range(db_file.locations)
               THEN Finish([@ EXCEPT !.db_file = db_file], 409,
                           <<"Replica has already been added", db_file.uuid>>)
             ELSE [@ EXCEPT !.pc = "update_file",
                            !.db_file = [db_file EXCEPT !.locations =
                                            @ \o metadata.locations]]]
    /\ UNCHANGED <<store, overlaps, window>>

\* Lines 502-504: add the replica.
CreateUpdateFile(r) ==
    /\ At(r, "create", "update_file")
    /\ LET db_file == req[r].db_file
           res == update_file(files, db_file.uuid,
                              [locations |-> db_file.locations])
       IN  /\ files' = res.coll
           /\ req' = [req EXCEPT ![r] =
                 IF res.exc # "none" THEN InternalError(@)
                 ELSE Finish([@ EXCEPT !.wrote = TRUE], 200, <<>>)]
    /\ UNCHANGED <<collections, snapshots, overlaps, window>>

\* Lines 506-507: insert the new record.
CreateInsert(r) ==
    /\ At(r, "create", "create_file")
    /\ LET res == create_file(files, req[r].metadata) IN
           /\ files' = res.coll
           /\ req' = [req EXCEPT ![r] =
                 IF res.exc # "none" THEN InternalError(@)
                 ELSE Finish([@ EXCEPT !.wrote = TRUE], 201, <<>>)]
    /\ UNCHANGED <<collections, snapshots, overlaps, window>>

\* --------------------------- server.py: SingleFileLocationsHandler.post

\* The request arrives: POST /api/files/<uuid>/locations.
BeginAddLocations(r, w) ==
    /\ Arrive(r, w)
    /\ \E uuid \in w.uuids, locations \in w.add :
          req' = [req EXCEPT ![r] =
                    [Idle EXCEPT !.op = "add_locations", !.pc = "get_file",
                                 !.uuid = uuid,
                                 !.metadata = [locations |-> locations]]]
    /\ UNCHANGED <<store, window>>

\* Lines 692-718: load the record, decode the body.
AddLocationsGetFile(r) ==
    /\ At(r, "add_locations", "get_file")
    /\ LET db_file == get_file(files, [uuid |-> req[r].uuid]) IN
       req' = [req EXCEPT ![r] =
                 IF db_file = NoDoc
                   THEN Finish(@, 404, <<"File uuid not found">>)
                 ELSE IF "locations" \notin DOMAIN req[r].metadata
                   THEN Finish(@, 400, <<"POST body requires 'locations' field">>)
                 ELSE IF req[r].metadata.locations = <<>>
                   THEN Finish([@ EXCEPT !.db_file = db_file], 200, <<>>)
                 ELSE [@ EXCEPT !.pc = "check", !.db_file = db_file, !.n = 1]]
    /\ UNCHANGED <<store, overlaps, window>>

\* A loop that takes for new every location that no other record holds,
\* those of the target record included.
AddLocationsCheck_OwnAreNew(r) ==
    /\ At(r, "add_locations", "check")
    /\ LET locations == req[r].metadata.locations
           loc == locations[req[r].n]
           check == get_file(files, [locations |-> loc])
           new_locations == Append(req[r].new_locations, loc)
       IN  req' = [req EXCEPT ![r] =
             IF check # NoDoc /\ check.uuid # req[r].uuid
               THEN Finish(@, 409, <<"location already exists", check.uuid, loc>>)
             ELSE IF req[r].n < Len(locations)
               THEN [@ EXCEPT !.new_locations = new_locations, !.n = @ + 1]
             ELSE [@ EXCEPT !.new_locations = new_locations, !.pc = "append"]]
    /\ UNCHANGED <<store, overlaps, window>>

\* Lines 719-740: one turn of the loop over the locations; after the last
\* turn, the decision whether there is anything to append.
AddLocationsCheck(r) ==
    /\ At(r, "add_locations", "check")
    /\ LET locations == req[r].metadata.locations
           loc == locations[req[r].n]
           check == get_file(files, [locations |-> loc])
           new_locations == IF check = NoDoc
                              THEN Append(req[r].new_locations, loc)
                              ELSE req[r].new_locations
       IN  req' = [req EXCEPT ![r] =
             IF check # NoDoc /\ check.uuid # req[r].uuid
               THEN Finish(@, 409, <<"location already exists", check.uuid, loc>>)
             ELSE IF req[r].n < Len(locations)
               THEN [@ EXCEPT !.new_locations = new_locations, !.n = @ + 1]
             ELSE IF new_locations # <<>>
               THEN [@ EXCEPT !.new_locations = new_locations, !.pc = "append"]
             ELSE Finish(@, 200, <<>>)]
    /\ UNCHANGED <<store, overlaps, window>>

\* A write per location: the first of the new locations is appended, the
\* others are left for later writes.
AddLocationsAppend_OneByOne(r) ==
    /\ At(r, "add_locations", "append")
    /\ LET new_locations == req[r].new_locations
           res == append_distinct_elements_to_file(files, req[r].uuid,
                      [locations |-> <<Head(new_locations)>>],
                      utcnow(req[r].uuid))
       IN  /\ files' = res.coll
           /\ req' = [req EXCEPT ![r] =
                 IF res.exc # "none" THEN InternalError(@)
                 ELSE IF Tail(new_locations) # <<>>
                   THEN [@ EXCEPT !.new_locations = Tail(new_locations)]
                 ELSE [@ EXCEPT !.pc = "reread", !.wrote = TRUE]]
    /\ UNCHANGED <<collections, snapshots, overlaps, window>>

\* A read-modify-write of the batch: the locations read at the lookup,
\* extended by the new ones, are stored over the record's list.
AddLocationsAppend_Stale(r) ==
    /\ At(r, "add_locations", "append")
    /\ LET res == update_file(files, req[r].uuid,
                      [locations |-> req[r].db_file.locations \o req[r].new_locations,
                       meta_modify_date |-> utcnow(req[r].uuid)])
       IN  /\ files' = res.coll
           /\ req' = [req EXCEPT ![r] =
                 IF res.exc # "none" THEN InternalError(@)
                 ELSE [@ EXCEPT !.pc = "reread", !.wrote = TRUE]]
    /\ UNCHANGED <<collections, snapshots, overlaps, window>>

\* Line 742: the single write of the batch.
AddLocationsAppend(r) ==
    /\ At(r, "add_locations", "append")
    /\ LET res == append_distinct_elements_to_file(files, req[r].uuid,
                      [locations |-> req[r].new_locations],
                      utcnow(req[r].uuid))
       IN  /\ files' = res.coll
           /\ req' = [req EXCEPT ![r] =
                 IF res.exc # "none" THEN InternalError(@)
                 ELSE [@ EXCEPT !.pc = "reread", !.wrote = TRUE]]
    /\ UNCHANGED <<collections, snapshots, overlaps, window>>

\* Lines 744-751: re-read the record and send it; db_file['_links'] = ...
\* raises TypeError when the record is gone.
AddLocationsReread(r) ==
    /\ At(r, "add_locations", "reread")
    /\ LET db_file == get_file(files, [uuid |-> req[r].uuid]) IN
       req' = [req EXCEPT ![r] =
                 IF db_file = NoDoc THEN InternalError(@)
                 ELSE Finish([@ EXCEPT !.db_file = db_file], 200, <<>>)]
    /\ UNCHANGED <<store, overlaps, window>>

\* --------------------------------------- server.py: SingleFileHandler.get

\* GET /api/files/<uuid> arrives.
BeginGet(r, w) ==
    /\ Arrive(r, w)
    /\ \E uuid \in w.targets :
          req' = [req EXCEPT ![r] =
                    [Idle EXCEPT !.op = "get", !.pc = "get_file", !.uuid = uuid]]
    /\ UNCHANGED <<store, window>>

\* Lines 570-581: the record, with its links, or 404.
GetFile(r) ==
    /\ At(r, "get", "get_file")
    /\ LET db_file == get_file(files, [uuid |-> req[r].uuid]) IN
       req' = [req EXCEPT ![r] =
                 IF db_file = NoDoc
                   THEN Finish(@, 404, <<"File uuid not found">>)
                   ELSE Finish([@ EXCEPT !.db_file =
                                   Merge(db_file, [_links |-> <<"files", req[r].uuid>>])],
                               200, <<>>)]
    /\ UNCHANGED <<store, overlaps, window>>

\* ------------------------------------ server.py: SingleFileHandler.delete

BeginDelete(r, w) ==
    /\ Arrive(r, w)
    /\ \E uuid \in w.targets :
          req' = [req EXCEPT ![r] =
                    [Idle EXCEPT !.op = "delete", !.pc = "delete_file",
                                 !.uuid = uuid]]
    /\ UNCHANGED <<store, window>>

\* A delete that cascades: the record's id is also taken out of the files
\* list of every snapshot.
DeleteFile_Cascading(r) ==
    /\ At(r, "delete", "delete_file")
    /\ LET res == delete_file(files, [uuid |-> req[r].uuid]) IN
           /\ files' = res.coll
           /\ req' = [req EXCEPT ![r] =
                 IF res.exc # "none"
                   THEN Finish(@, 404, <<"File uuid not found">>)
                   ELSE Finish([@ EXCEPT !.wrote = TRUE], 204, <<>>)]
    /\ snapshots' = [i \in 1..Len(snapshots) |->
                       [snapshots[i] EXCEPT !.files =
                           SelectSeq(@, LAMBDA u : u # req[r].uuid)]]
    /\ UNCHANGED <<collections, overlaps, window>>

\* Lines 589-596
DeleteFile(r) ==
    /\ At(r, "delete", "delete_file")
    /\ LET res == delete_file(files, [uuid |-> req[r].uuid]) IN
           /\ files' = res.coll
           /\ req' = [req EXCEPT ![r] =
                 IF res.exc # "none"
                   THEN Finish(@, 404, <<"File uuid not found">>)
                   ELSE Finish([@ EXCEPT !.wrote = TRUE], 204, <<>>)]
    /\ UNCHANGED <<collections, snapshots, overlaps, window>>

\* ------------------------------ server.py: SingleFileHandler.patch / put

\* PATCH /api/files/<uuid> arrives: partial metadata.
BeginUpdate(r, w) ==
    /\ Arrive(r, w)
    /\ \E uuid \in w.targets, metadata \in w.update :
          req' = [req EXCEPT ![r] =
                    [Idle EXCEPT !.op = "update", !.pc = "get_file",
                                 !.uuid = uuid, !.metadata = metadata]]
    /\ UNCHANGED <<store, window>>

\* PUT /api/files/<uuid> arrives: a whole document.
BeginReplace(r, w) ==
    /\ Arrive(r, w)
    /\ \E uuid \in w.targets, metadata \in w.replace :
          req' = [req EXCEPT ![r] =
                    [Idle EXCEPT !.op = "replace", !.pc = "get_file",
                                 !.uuid = uuid, !.metadata = metadata]]
    /\ UNCHANGED <<store, window>>

\* A lookup without the test `if not db_file`: the handler goes on with
\* whatever it found.
ModifyGetFile_NoNotFound(r) ==
    /\ At(r, "update", "get_file") \/ At(r, "replace", "get_file")
    /\ LET db_file == get_file(files, [uuid |-> req[r].uuid]) IN
       req' = [req EXCEPT ![r] =
                 IF db_file # NoDoc
                    /\ has_forbidden_attributes_modification(req[r].metadata, db_file)
                   THEN Finish([@ EXCEPT !.db_file = db_file], 400, <<"forbidden">>)
                 ELSE [@ EXCEPT !.pc = "pathfinder", !.db_file = db_file]]
    /\ UNCHANGED <<store, overlaps, window>>

\* patch, lines 605-616, and put, lines 642-653: find the record, refuse a
\* change of an immutable field.
ModifyGetFile(r) ==
    /\ At(r, "update", "get_file") \/ At(r, "replace", "get_file")
    /\ LET db_file == get_file(files, [uuid |-> req[r].uuid]) IN
       req' = [req EXCEPT ![r] =
                 IF db_file = NoDoc
                   THEN Finish(@, 404, <<"File uuid not found">>)
                 ELSE IF has_forbidden_attributes_modification(req[r].metadata, db_file)
                   THEN Finish([@ EXCEPT !.db_file = db_file], 400, <<"forbidden">>)
                 ELSE [@ EXCEPT !.pc = "pathfinder", !.db_file = db_file]]
    /\ UNCHANGED <<store, overlaps, window>>

\* patch, lines 617-625: the location pre-check, the stamp, the merge into
\* db_file and the validation of the merged document.
UpdateCheckPaths(r) ==
    /\ At(r, "update", "pathfinder")
    /\ LET hit == contains_existing_filepaths(files, req[r].metadata, req[r].uuid)
           metadata == Merge(req[r].metadata,
                             [meta_modify_date |-> utcnow(req[r].uuid)])
           db_file == Merge(req[r].db_file, metadata)
       IN  IF hit # <<>>
             THEN /\ req' = [req EXCEPT ![r] = Finish(@, 409,
                              <<"location already exists", hit[2].uuid, hit[1]>>)]
             ELSE /\ req' = [req EXCEPT ![r] =
                       IF ~validate_metadata_modification(db_file)
                         THEN Finish([@ EXCEPT !.metadata = metadata,
                                               !.db_file = db_file],
                                     400, <<"validation">>)
                         ELSE [@ EXCEPT !.pc = "update_file",
                                        !.metadata = metadata,
                                        !.db_file = db_file]]
    /\ UNCHANGED <<store, overlaps, window>>

\* An update that writes back the whole document the handler merged.
UpdateFile_WholeDocument(r) ==
    /\ At(r, "update", "update_file")
    /\ LET res == replace_file(files, req[r].db_file) IN
           /\ files' = res.coll
           /\ req' = [req EXCEPT ![r] =
                 IF res.exc # "none" THEN InternalError(@)
                 ELSE Finish([@ EXCEPT !.wrote = TRUE], 200, <<>>)]
    /\ UNCHANGED <<collections, snapshots, overlaps, window>>

\* patch, lines 628-633
UpdateFile(r) ==
    /\ At(r, "update", "update_file")
    /\ LET res == update_file(files, req[r].uuid, req[r].metadata) IN
           /\ files' = res.coll
           /\ req' = [req EXCEPT ![r] =
                 IF res.exc # "none" THEN InternalError(@)
                 ELSE Finish([@ EXCEPT !.wrote = TRUE], 200, <<>>)]
    /\ UNCHANGED <<collections, snapshots, overlaps, window>>

\* put, lines 654-661: the location pre-check, the forced uuid, the stamp and
\* the validation of the incoming document.
ReplaceCheckPaths(r) ==
    /\ At(r, "replace", "pathfinder")
    /\ LET hit == contains_existing_filepaths(files, req[r].metadata, req[r].uuid)
           metadata == Merge(req[r].metadata,
                             [uuid |-> req[r].uuid,
                              meta_modify_date |-> utcnow(req[r].uuid)])
       IN  IF hit # <<>>
             THEN /\ req' = [req EXCEPT ![r] = Finish(@, 409,
                              <<"location already exists", hit[2].uuid, hit[1]>>)]
             ELSE /\ req' = [req EXCEPT ![r] =
                       IF ~validate_metadata_modification(metadata)
                         THEN Finish([@ EXCEPT !.metadata = metadata],
                                     400, <<"validation">>)
                         ELSE [@ EXCEPT !.pc = "replace_file",
                                        !.metadata = metadata]]
    /\ UNCHANGED <<store, overlaps, window>>

\* A replacement that is written as a merge-update of the incoming document.
ReplaceFile_Merging(r) ==
    /\ At(r, "replace", "replace_file")
    /\ LET res == update_file(files, req[r].uuid, req[r].metadata) IN
           /\ files' = res.coll
           /\ req' = [req EXCEPT ![r] =
                 IF res.exc # "none" THEN InternalError(@)
                 ELSE Finish([@ EXCEPT !.wrote = TRUE], 200, <<>>)]
    /\ UNCHANGED <<collections, snapshots, overlaps, window>>

\* put, lines 664-669
ReplaceFile(r) ==
    /\ At(r, "replace", "replace_file")
    /\ LET res == replace_file(files, req[r].metadata) IN
           /\ files' = res.coll
           /\ req' = [req EXCEPT ![r] =
                 IF res.exc # "none" THEN InternalError(@)
                 ELSE Finish([@ EXCEPT !.wrote = TRUE], 200, <<>>)]
    /\ UNCHANGED <<collections, snapshots, overlaps, window>>

\* --------------------------------- server.py: CollectionsHandler.post

\* The workload of the catalog: two file records that come, change and go;
\* a collection over a checksum (argbuilder.build_files_query keeps a
\* well-formed filter as it is); snapshots of the collection, named by its
\* id or by its name.
CatalogWorkload ==
    [overlaps |-> 0,
     uuids   |-> {"u1"},
     targets |-> {"u1"},
     create  |-> {[uuid |-> "u1", logical_name |-> "n1", checksum |-> "c1",
                   locations |-> <<"a">>],
                  [uuid |-> "u1", logical_name |-> "n1", checksum |-> "c1",
                   locations |-> <<"c">>],
                  [uuid |-> "u2", logical_name |-> "n2", checksum |-> "c1",
                   locations |-> <<"b">>]},
     add     |-> {<<"c">>},
     update  |-> {[checksum |-> "c2"]},
     replace |-> {[logical_name |-> "n1", checksum |-> "c1",
                   locations |-> <<"a">>]},
     collections |-> {[uuid |-> "k1", collection_name |-> "kn", owner |-> "o1",
                       query |-> [checksum |-> "c1"]]},
     collection_ids |-> {"k1", "kn"},
     snapshots |-> [uuid : {"s1", "s2"}],
     windows |-> {[limit |-> None, start |-> 0], [limit |-> None, start |-> 1]}]

\* Lines 803-825: decode, encode the query, check the fields, stamp.
BeginCreateCollection(r, w) ==
    /\ Arrive(r, w)
    /\ \E body \in w.collections :
          LET rq == [Idle EXCEPT !.op = "create_collection", !.metadata = body] IN
          IF "collection_name" \notin DOMAIN body
            THEN /\ req' = [req EXCEPT ![r] = Finish(rq, 400, <<"Missing collection_name">>)]
          ELSE IF "owner" \notin DOMAIN body
            THEN /\ req' = [req EXCEPT ![r] = Finish(rq, 400, <<"Missing owner">>)]
          ELSE /\ req' = [req EXCEPT ![r] =
                     [rq EXCEPT !.pc = "get_collection",
                                !.metadata = Merge(body,
                                    [query |-> json_encode(body.query),
                                     meta_modify_date |-> utcnow(body.uuid),
                                     creation_date |-> utcnow(body.uuid)])]]
    /\ UNCHANGED <<store, window>>

\* Lines 827-833
CollectionGet(r) ==
    /\ At(r, "create_collection", "get_collection")
    /\ LET ret == get_collection(collections, [uuid |-> req[r].metadata.uuid]) IN
       req' = [req EXCEPT ![r] =
                 IF ret # NoDoc
                   THEN Finish([@ EXCEPT !.ret = ret], 409,
                               <<"uuid already exists", ret.uuid>>)
                   ELSE [@ EXCEPT !.pc = "create_collection"]]
    /\ UNCHANGED <<store, overlaps, window>>

\* Lines 835-843
CollectionInsert(r) ==
    /\ At(r, "create_collection", "create_collection")
    /\ LET res == create_collection(collections, req[r].metadata) IN
           /\ collections' = res.coll
           /\ req' = [req EXCEPT ![r] =
                 IF res.exc # "none" THEN InternalError(@)
                 ELSE Finish([@ EXCEPT !.wrote = TRUE], 201, <<>>)]
    /\ UNCHANGED <<files, snapshots, overlaps, window>>

\* --------------------------- server.py: SingleCollectionHandler.get

\* The workload of the collections: two documents for the id k1, and a
\* collection whose id is the name of k1 and whose name is the id k1.
CollectionWorkload ==
    [overlaps |-> 0,
     collections |-> {[uuid |-> "k1", collection_name |-> "kn", owner |-> "o1",
                       query |-> [checksum |-> "c1"]],
                      [uuid |-> "k1", collection_name |-> "kx", owner |-> "o2",
                       query |-> [checksum |-> "c2"]],
                      [uuid |-> "kn", collection_name |-> "k1", owner |-> "o1",
                       query |-> [checksum |-> "c1"]],
                      [uuid |-> "kx", collection_name |-> "k1", owner |-> "o2",
                       query |-> [checksum |-> "c2"]]},
     collection_ids |-> {"k1", "kn", "kx", "kz"}]

\* GET /api/collections/<uid> arrives.
BeginGetCollection(r, w) ==
    /\ Arrive(r, w)
    /\ \E uid \in w.collection_ids :
          req' = [req EXCEPT ![r] =
                    [Idle EXCEPT !.op = "get_collection", !.pc = "get_collection",
                                 !.uuid = uid]]
    /\ UNCHANGED <<store, window>>

\* The response of lines 859-866.
CollectionFound(rq, ret) ==
    Finish([rq EXCEPT !.ret = Merge(ret, [_links |-> <<"collections", rq.uuid>>])],
           200, <<>>)

\* A first lookup by name.
GetCollection_ByNameFirst(r) ==
    /\ At(r, "get_collection", "get_collection")
    /\ LET ret == get_collection(collections, [collection_name |-> req[r].uuid]) IN
       req' = [req EXCEPT ![r] =
                 IF ret = NoDoc THEN [@ EXCEPT !.pc = "get_collection_by_name"]
                 ELSE CollectionFound(@, ret)]
    /\ UNCHANGED <<store, overlaps, window>>

\* Line 856, and lines 859-866 when the collection is found by its uuid.
GetCollection(r) ==
    /\ At(r, "get_collection", "get_collection")
    /\ LET ret == get_collection(collections, [uuid |-> req[r].uuid]) IN
       req' = [req EXCEPT ![r] =
                 IF ret = NoDoc THEN [@ EXCEPT !.pc = "get_collection_by_name"]
                 ELSE CollectionFound(@, ret)]
    /\ UNCHANGED <<store, overlaps, window>>

\* Lines 857-868: the lookup by name.
GetCollectionByName(r) ==
    /\ At(r, "get_collection", "get_collection_by_name")
    /\ LET ret == get_collection(collections, [collection_name |-> req[r].uuid]) IN
       req' = [req EXCEPT ![r] =
                 IF ret = NoDoc THEN Finish(@, 404, <<"Collection not found">>)
                 ELSE CollectionFound(@, ret)]
    /\ UNCHANGED <<store, overlaps, window>>

\* ------------------- server.py: SingleCollectionSnapshotsHandler.post

\* Lines 959-979: the snapshot document, but for its files; t is the stamp.
SnapshotMetadata(body, uid, ret, t) ==
    LET m1 == Merge(body, [collection_id |-> uid])
        m2 == IF "owner" \notin DOMAIN m1 THEN Merge(m1, [owner |-> ret.owner])
              ELSE m1
        m3 == Merge(m2, [meta_modify_date |-> t])
        m4 == Merge(m3, [creation_date |-> m3.meta_modify_date])
    IN  Without(m4, "meta_modify_date")

\* The handler goes on with the collection it found.
SnapshotBuild(rq, ret, t) ==
    [rq EXCEPT !.pc = "get_snapshot", !.ret = ret,
               !.metadata = SnapshotMetadata(rq.metadata, rq.uuid, ret, t)]

BeginCreateSnapshot(r, w) ==
    /\ Arrive(r, w)
    /\ \E uid \in w.collection_ids, body \in w.snapshots :
          req' = [req EXCEPT ![r] =
                    [Idle EXCEPT !.op = "create_snapshot", !.pc = "get_collection",
                                 !.uuid = uid, !.metadata = body]]
    /\ UNCHANGED <<store, window>>

\* Line 952, and lines 959-979 when the collection is found by its uuid.
SnapshotGetCollection(r) ==
    /\ At(r, "create_snapshot", "get_collection")
    /\ LET ret == get_collection(collections, [uuid |-> req[r].uuid]) IN
       IF ret = NoDoc
         THEN /\ req' = [req EXCEPT ![r].pc = "get_collection_by_name"]
         ELSE /\ req' = [req EXCEPT ![r] = SnapshotBuild(@, ret, utcnow(req[r].metadata.uuid))]
    /\ UNCHANGED <<store, overlaps, window>>

\* Lines 954-957, and lines 959-979 when the collection is found by its name.
SnapshotGetCollectionByName(r) ==
    /\ At(r, "create_snapshot", "get_collection_by_name")
    /\ LET ret == get_collection(collections, [collection_name |-> req[r].uuid]) IN
       IF ret = NoDoc
         THEN /\ req' = [req EXCEPT ![r] = Finish(@, 400, <<"Cannot find collection">>)]
         ELSE /\ req' = [req EXCEPT ![r] = SnapshotBuild(@, ret, utcnow(req[r].metadata.uuid))]
    /\ UNCHANGED <<store, overlaps, window>>

\* Lines 981-985
SnapshotGet(r) ==
    /\ At(r, "create_snapshot", "get_snapshot")
    /\ LET snapshot == get_snapshot(snapshots, [uuid |-> req[r].metadata.uuid]) IN
       req' = [req EXCEPT ![r] =
                 IF snapshot # NoDoc
                   THEN Finish(@, 409, <<"uuid already exists">>)
                   ELSE [@ EXCEPT !.pc = "find_files"]]
    /\ UNCHANGED <<store, overlaps, window>>

\* Lines 988-989: the collection's query, re-issued; only the ids are kept.
SnapshotFindFiles(r) ==
    /\ At(r, "create_snapshot", "find_files")
    /\ LET found == find_files(files, json_decode(req[r].ret.query),
                                 KeyList(<<"uuid">>), None, 0)
       IN  req' = [req EXCEPT ![r] =
                     [@ EXCEPT !.pc = "create_snapshot",
                               !.metadata = Merge(@,
                                   [files |-> [j \in 1..Len(found) |-> found[j].uuid]])]]
    /\ UNCHANGED <<store, overlaps, window>>

\* Lines 992-1000
SnapshotInsert(r) ==
    /\ At(r, "create_snapshot", "create_snapshot")
    /\ LET res == create_snapshot(snapshots, req[r].metadata) IN
           /\ snapshots' = res.coll
           /\ req' = [req EXCEPT ![r] =
                 IF res.exc # "none" THEN InternalError(@)
                 ELSE Finish([@ EXCEPT !.wrote = TRUE], 201, <<>>)]
    /\ UNCHANGED <<files, collections, overlaps, window>>

\* ------------------------- server.py: SingleSnapshotFilesHandler.get

\* GET /api/snapshots/<uid>/files arrives.  The window is what
\* argbuilder.build_limit and build_start leave in kwargs; no keys are asked
\* for.
BeginSnapshotFiles(r, w) ==
    /\ Arrive(r, w)
    /\ \E uid \in {b.uuid : b \in w.snapshots}, kwargs \in w.windows :
          req' = [req EXCEPT ![r] =
                    [Idle EXCEPT !.op = "snapshot_files", !.pc = "get_snapshot",
                                 !.uuid = uid, !.metadata = kwargs]]
    /\ UNCHANGED <<store, window>>

\* Lines 1036-1049 and 1059-1060: the snapshot, and the query on its files.
SnapshotFilesGet(r) ==
    /\ At(r, "snapshot_files", "get_snapshot")
    /\ LET ret == get_snapshot(snapshots, [uuid |-> req[r].uuid]) IN
       req' = [req EXCEPT ![r] =
                 IF ret = NoDoc
                   THEN Finish(@, 404, <<"Snapshot not found">>)
                   ELSE [@ EXCEPT !.pc = "find_files", !.ret = ret,
                                  !.metadata = Merge(@, [query |-> In("uuid", ret.files)])]]
    /\ UNCHANGED <<store, overlaps, window>>

\* A stored join: the response lists the captured ids, whatever the files
\* collection holds.
SnapshotFilesFind_Stored(r) ==
    /\ At(r, "snapshot_files", "find_files")
    /\ LET captured == req[r].ret.files IN
       req' = [req EXCEPT ![r] =
                 Finish(@, 200, [n \in 1..Len(captured) |-> [uuid |-> captured[n]]])]
    /\ UNCHANGED <<store, overlaps, window>>

\* Lines 1051-1058: the files, written as the response.
SnapshotFilesFind(r) ==
    /\ At(r, "snapshot_files", "find_files")
    /\ LET kwargs == req[r].metadata
           found == find_files(files, kwargs.query, NoKeys, kwargs.limit, kwargs.start)
       IN  req' = [req EXCEPT ![r] = Finish(@, 200, found)]
    /\ UNCHANGED <<store, overlaps, window>>

\* ------------------------------------------------------- the specification

\* The state after construction: empty collections, no request.
Init ==
    /\ files = <<>>
    /\ collections = <<>>
    /\ snapshots = <<>>
    /\ req = [r \in Reqs |-> Idle]
    /\ overlaps = 0
    /\ cursor = <<>>
    /\ limit = None
    /\ start = 0
    /\ results = [ran |-> FALSE, rows |-> <<>>]
    /\ projection = NoProjection
    /\ nModified = TRUE

\* APIHandler.on_finish: the response is out, the slot serves no request.
Close(r) ==
    /\ req[r].pc = "done"
    /\ req' = [req EXCEPT ![r] = Idle]
    /\ UNCHANGED <<store, overlaps, window>>

\* A request on the file records arrives.
BeginFile(r, w) ==
    \/ BeginCreate(r, w)
    \/ BeginAddLocations(r, w)
    \/ BeginDelete(r, w)
    \/ BeginUpdate(r, w)
    \/ BeginReplace(r, w)

\* A request on the file records goes on to its next await, or to its
\* response.
StepFile(r) ==
    \/ CreateCheckPaths(r)
    \/ CreateGetFile(r)
    \/ CreateUpdateFile(r)
    \/ CreateInsert(r)
    \/ AddLocationsGetFile(r)
    \/ AddLocationsCheck(r)
    \/ AddLocationsAppend(r)
    \/ AddLocationsReread(r)
    \/ DeleteFile(r)
    \/ ModifyGetFile(r)
    \/ UpdateCheckPaths(r)
    \/ UpdateFile(r)
    \/ ReplaceCheckPaths(r)
    \/ ReplaceFile(r)

\* The same for a request on the collections and snapshots.
BeginCatalog(r, w) ==
    \/ BeginCreateCollection(r, w)
    \/ BeginCreateSnapshot(r, w)

StepCatalog(r) ==
    \/ CollectionGet(r)
    \/ CollectionInsert(r)
    \/ SnapshotGetCollection(r)
    \/ SnapshotGetCollectionByName(r)
    \/ SnapshotGet(r)
    \/ SnapshotFindFiles(r)
    \/ SnapshotInsert(r)

\* The file record manager, requests served concurrently.
Next ==
    \E r \in Reqs : Close(r) \/ BeginFile(r, RaceWorkload) \/ StepFile(r)

Spec == Init /\ [][Next]_vars

\* The file record manager and the reads of a record, requests served one at
\* a time: a request arrives only when none is in flight.
NextSeq ==
    \E r \in Reqs :
        \/ Close(r)
        \/ BeginFile(r, SeqWorkload) \/ StepFile(r)
        \/ BeginGet(r, SeqWorkload) \/ GetFile(r)

SpecSeq == Init /\ [][NextSeq]_vars

\* The workload of the racing creations: two documents for the collection
\* id k1, snapshots s1 and s2 of it, addressed by id or by name.
CatalogRaceWorkload ==
    [overlaps |-> MaxOverlaps,
     collections |-> {[uuid |-> "k1", collection_name |-> "kn", owner |-> "o1",
                       query |-> [checksum |-> "c1"]],
                      [uuid |-> "k1", collection_name |-> "kx", owner |-> "o2",
                       query |-> [checksum |-> "c1"]]},
     collection_ids |-> {"k1", "kn"},
     snapshots |-> [uuid : {"s1", "s2"}]]

\* The collections and snapshots, created by requests served concurrently.
NextCatalogRace ==
    \E r \in Reqs :
        \/ Close(r)
        \/ BeginCatalog(r, CatalogRaceWorkload) \/ StepCatalog(r)

SpecCatalogRace == Init /\ [][NextCatalogRace]_vars

\* The collections: created and read.
NextCollections ==
    \E r \in Reqs :
        \/ Close(r)
        \/ BeginCreateCollection(r, CollectionWorkload)
        \/ CollectionGet(r) \/ CollectionInsert(r)
        \/ BeginGetCollection(r, CollectionWorkload)
        \/ GetCollection(r) \/ GetCollectionByName(r)

SpecCollections == Init /\ [][NextCollections]_vars

\* The file record manager on a server that reports nModified, or on one
\* that does not.
InitWriteResult ==
    /\ files = <<>>
    /\ collections = <<>>
    /\ snapshots = <<>>
    /\ req = [r \in Reqs |-> Idle]
    /\ overlaps = 0
    /\ cursor = <<>>
    /\ limit = None
    /\ start = 0
    /\ results = [ran |-> FALSE, rows |-> <<>>]
    /\ projection = NoProjection
    /\ nModified \in BOOLEAN

NextWriteResult ==
    \E r \in Reqs : Close(r) \/ BeginFile(r, WriteResultWorkload) \/ StepFile(r)

SpecWriteResult == InitWriteResult /\ [][NextWriteResult]_vars

\* The file record manager under the workload of the replicas.
NextReplica ==
    \E r \in Reqs : Close(r) \/ BeginFile(r, ReplicaWorkload) \/ StepFile(r)

SpecReplica == Init /\ [][NextReplica]_vars

\* The file record manager under the workload of the replacements.
NextReplace ==
    \E r \in Reqs : Close(r) \/ BeginFile(r, ReplaceWorkload) \/ StepFile(r)

SpecReplace == Init /\ [][NextReplace]_vars

\* The whole catalog: file records, collections and snapshots.
NextCatalog ==
    \E r \in Reqs :
        \/ Close(r)
        \/ BeginFile(r, CatalogWorkload) \/ StepFile(r)
        \/ BeginCatalog(r, CatalogWorkload) \/ StepCatalog(r)
        \/ BeginSnapshotFiles(r, CatalogWorkload)
        \/ SnapshotFilesGet(r) \/ SnapshotFilesFind(r)

SpecCatalog == Init /\ [][NextCatalog]_vars

\* ------------------------------------------------ the windowing specification

\* The cursors: N documents in the store's natural order, document i being
\* the i-th the cursor produces.
Cursors == {[i \in 1..n |-> i] : n \in 0..MaxDocs}

\* A cursor, a limit (or none) and a start.
InitWindow ==
    /\ files = <<>>
    /\ collections = <<>>
    /\ snapshots = <<>>
    /\ req = [r \in Reqs |-> Idle]
    /\ overlaps = 0
    /\ cursor \in Cursors
    /\ limit \in {None} \cup (0..MaxWindow)
    /\ start \in 0..MaxWindow
    /\ results = [ran |-> FALSE, rows |-> <<>>]
    /\ projection = NoProjection
    /\ nModified = TRUE

\* results = list(Mongo._limit_results(cursor, limit, start))
ListResults ==
    /\ ~results.ran
    /\ results' = [ran |-> TRUE, rows |-> limit_results(cursor, limit, start)]
    /\ UNCHANGED <<store, req, overlaps, cursor, limit, start, projection, nModified>>

NextWindow == ListResults

SpecWindow == InitWindow /\ [][NextWindow]_vars

\* ---------------------------------------------- the projection specification

\* Field lists of up to two names, the row identifier among them.
KeyLists ==
    LET Names == {"_id", "uuid", "checksum"} IN
    {<<>>} \cup {<<a>> : a \in Names} \cup {<<a, b>> : a, b \in Names}

\* Documents as the store holds them, row identifier included.
StoredDocs ==
    {[_id |-> "o1", uuid |-> "u1", logical_name |-> "n1", checksum |-> "c1",
      locations |-> <<"a">>],
     [_id |-> "o2", uuid |-> "u2", logical_name |-> "n2"]}

\* The keys, the default and a document.
InitProjection ==
    /\ files = <<>>
    /\ collections = <<>>
    /\ snapshots = <<>>
    /\ req = [r \in Reqs |-> Idle]
    /\ overlaps = 0
    /\ cursor = <<>>
    /\ limit = None
    /\ start = 0
    /\ results = [ran |-> FALSE, rows |-> <<>>]
    /\ \E keys \in {NoKeys, AllKeys, OtherKeys} \cup {KeyList(l) : l \in KeyLists},
          default \in {<<>>, [uuid |-> TRUE, logical_name |-> TRUE]},
          doc \in StoredDocs :
          projection = [NoProjection EXCEPT !.keys = keys, !.default = default,
                                            !.doc = doc]
    /\ nModified = TRUE

\* projection = Mongo._get_projection(keys, default), and the row a find()
\* with it returns of the document.
BuildProjection ==
    /\ ~projection.ran
    /\ LET p == get_projection(projection.keys, projection.default) IN
       projection' = [projection EXCEPT
                        !.ran = TRUE, !.projection = p,
                        !.row = IF "TypeError" \in DOMAIN p THEN NoDoc
                                ELSE Projected(projection.doc, p)]
    /\ UNCHANGED <<store, req, overlaps, cursor, limit, start, results, nModified>>

NextProjection == BuildProjection

SpecProjection == InitProjection /\ [][NextProjection]_vars

\* ================================================================== claims

\* The slice d[s], ..., d[min(s + l, N) - 1] of a sequence d of N elements
\* (positions counted from 0, as the claims count them).
Slice(d, s, l) ==
    LET e == IF s + l < Len(d) THEN s + l ELSE Len(d)
    IN  [j \in 1..(IF e > s THEN e - s ELSE 0) |-> d[s + j]]

\* C10: for a cursor producing N documents, the windowing step with start = s
\* and limit = l (s >= 0, l >= 0) yields exactly d[s], ..., d[min(s+l, N)-1],
\* in cursor order.
C10_WindowIsSlice ==
    (results.ran /\ limit # None) => results.rows = Slice(cursor, start, limit)

\* The stored file records of id u, the locations they hold, and the ids of
\* the records that hold location loc.
Stored(fs, u) == {fs[i] : i \in {j \in 1..Len(fs) : fs[j].uuid = u}}
LocSet(fs, u) == UNION {Range(d.locations) : d \in Stored(fs, u)}
Holders(fs, loc) ==
    {fs[i].uuid : i \in {j \in 1..Len(fs) : loc \in Range(fs[j].locations)}}
NoDup(seq) == \A i, j \in 1..Len(seq) : i # j => seq[i] # seq[j]

\* A Create is in flight at slot r and its id is stored with another checksum.
OtherChecksum(r) ==
    /\ req[r].op = "create" /\ InFlight(r)
    /\ \E d \in Stored(files, req[r].metadata.uuid) :
          d.checksum # req[r].metadata.checksum

\* C3: a Create whose id exists with a different checksum ends in Conflict
\* and leaves the stored records as they are, whether or not the incoming
\* locations overlap the existing ones.
C3_ChecksumConflict ==
    [][\A r \in Reqs : OtherChecksum(r) =>
          /\ files' = files
          /\ req'[r].pc = "done" => req'[r].status = 409]_vars

\* C3 happens: the Conflict of the lookup by id, for a record of another
\* checksum and other locations.
C3_Witness ==
    \E r \in Reqs :
        /\ req[r].op = "create" /\ Sent(r, 409)
        /\ req[r].detail = <<"uuid already exists", req[r].metadata.uuid>>
        /\ \E d \in Stored(files, req[r].metadata.uuid) :
              /\ d.checksum # req[r].metadata.checksum
              /\ Range(d.locations) \cap Range(req[r].metadata.locations) = {}

\* A Create is in flight at slot r, its id is stored with the same checksum
\* and that record holds none of the incoming locations.
SameChecksumNewLocations(r) ==
    /\ req[r].op = "create" /\ InFlight(r)
    /\ \E d \in Stored(files, req[r].metadata.uuid) :
          /\ d.checksum = req[r].metadata.checksum
          /\ Range(d.locations) \cap Range(req[r].metadata.locations) = {}

\* The step answers "replica added", stores no further record and makes the
\* record's location set the union of the old one and the incoming one.
ReplicaAdded(r) ==
    /\ req'[r].status = 200
    /\ Len(files') = Len(files)
    /\ LocSet(files', req[r].metadata.uuid) =
          LocSet(files, req[r].metadata.uuid) \cup Range(req[r].metadata.locations)

\* C4 as stated: a Create with an existing id, the same checksum and only
\* locations not yet registered on that record succeeds as "replica added",
\* creates no second record, and the record's location set becomes the union.
C4_ReplicaAdded ==
    [][\A r \in Reqs :
          (SameChecksumNewLocations(r) /\ req'[r].pc = "done") => ReplicaAdded(r)]_vars

\* C4 amended: the same, for incoming locations that no record holds.
C4_ReplicaAddedUnheld ==
    [][\A r \in Reqs :
          (/\ SameChecksumNewLocations(r)
           /\ \A loc \in Range(req[r].metadata.locations) : Holders(files, loc) = {}
           /\ req'[r].pc = "done") => ReplicaAdded(r)]_vars

\* C4 happens: a replica was added to a record that had a location already.
C4_Witness ==
    \E r \in Reqs :
        /\ req[r].op = "create" /\ Sent(r, 200) /\ req[r].wrote
        /\ Len(files) = 1
        /\ LocSet(files, req[r].metadata.uuid) = {"a", "b"}
        /\ req[r].metadata.locations = <<"b">>

\* C5: after a successful replica-merge Create, every location occurs at most
\* once in the stored record's locations, also when the request lists the
\* same new location more than once.
C5_NoDuplicateLocation ==
    \A r \in Reqs :
        (req[r].op = "create" /\ Sent(r, 200)) =>
            \A d \in Stored(files, req[r].metadata.uuid) : NoDup(d.locations)

\* C6: AddLocations twice in sequence with the same list on an existing
\* record.  The first call, when it succeeds, leaves every location of the
\* list on the record; a call that has written nothing and finds every
\* location of its list on the record - the second call - writes nothing, so
\* the location set is the one the first call left, and it succeeds.
C6_RepeatedAddLocations ==
    [][\A r \in Reqs : (req[r].op = "add_locations" /\ InFlight(r)) =>
          /\ (req'[r].pc = "done" /\ req'[r].status = 200) =>
                Range(req[r].metadata.locations) \subseteq LocSet(files', req[r].uuid)
          /\ (/\ ~req[r].wrote
              /\ Stored(files, req[r].uuid) # {}
              /\ Range(req[r].metadata.locations) \subseteq LocSet(files, req[r].uuid)) =>
                /\ files' = files
                /\ ~req'[r].wrote
                /\ req'[r].pc = "done" => req'[r].status = 200]_vars

\* C6 happens: a call for location c, which only an earlier AddLocations on
\* the record can have put there, succeeded without a write.
C6_Witness ==
    \E r \in Reqs :
        /\ req[r].op = "add_locations" /\ Sent(r, 200) /\ ~req[r].wrote
        /\ req[r].metadata.locations = <<"c", "b">>
        /\ {"c", "b"} \subseteq LocSet(files, req[r].uuid)

\* An AddLocations is in flight at slot r on a stored record, and another
\* record holds a location of the batch.
HeldElsewhere(r) ==
    /\ req[r].op = "add_locations" /\ InFlight(r)
    /\ Stored(files, req[r].uuid) # {}
    /\ \E loc \in Range(req[r].metadata.locations) :
          Holders(files, loc) \ {req[r].uuid} # {}

\* C7: an AddLocations batch with a location that another record holds ends
\* in Conflict naming that location and the other record's id, and nothing of
\* the batch is written, new locations that precede the conflicting one
\* included.
C7_BatchConflict ==
    [][\A r \in Reqs : HeldElsewhere(r) =>
          /\ files' = files
          /\ ~req'[r].wrote
          /\ req'[r].pc = "done" =>
                /\ req'[r].status = 409
                /\ Len(req'[r].detail) = 3
                /\ req'[r].detail[1] = "location already exists"
                /\ req'[r].detail[3] \in Range(req[r].metadata.locations)
                /\ req'[r].detail[2] \in
                      Holders(files, req'[r].detail[3]) \ {req[r].uuid}]_vars

\* C7 happens: the batch <<c, b>>, c new and b on another record, is refused
\* for b and c is on no record.
C7_Witness ==
    \E r \in Reqs :
        /\ req[r].op = "add_locations" /\ Sent(r, 409)
        /\ req[r].metadata.locations = <<"c", "b">>
        /\ req[r].detail[3] = "b"
        /\ Holders(files, "c") = {}
        /\ Stored(files, req[r].uuid) # {}

\* C1: in every reachable state, under any interleaving of Create,
\* AddLocations, Update, Replace and Delete requests, no two stored file
\* records share an id, a logical_name or a location.
C1_Unique ==
    \A i, j \in 1..Len(files) : i # j =>
        /\ files[i].uuid # files[j].uuid
        /\ files[i].logical_name # files[j].logical_name
        /\ Range(files[i].locations) \cap Range(files[j].locations) = {}

\* C1 happens: two records are stored, and a request that had passed its
\* own checks was stopped by a unique index.
C1_Witness ==
    /\ Len(files) = 2
    /\ \E r \in Reqs :
          /\ req[r].op = "add_locations" /\ Sent(r, 500)
          /\ \E loc \in Range(req[r].new_locations) :
                Holders(files, loc) \ {req[r].uuid} # {}

\* C2: two concurrent Creates of one id that does not exist yet, both past
\* the lookup by id before either inserts: the one that inserts second finds
\* the id stored; it ends in Conflict, and exactly one record of the id is
\* stored.
C2_RacingCreateConflict ==
    [][\A r \in Reqs :
          (/\ req[r].op = "create" /\ req[r].pc = "create_file"
           /\ Stored(files, req[r].metadata.uuid) # {}
           /\ req'[r] # req[r]) =>
              /\ req'[r].pc = "done" /\ req'[r].status = 409
              /\ Cardinality({i \in 1..Len(files') :
                                files'[i].uuid = req[r].metadata.uuid}) = 1]_vars

\* C8: two concurrent AddLocations on two records claim one unused location,
\* both past the lookup of the location before either writes: the one that
\* writes second ends in Conflict, and exactly one record holds the location.
C8_RacingAddLocationsConflict ==
    [][\A r, q \in Reqs : \A loc \in Locs :
          (/\ req[r].op = "add_locations" /\ req[r].pc = "append"
           /\ req[q].op = "add_locations" /\ req[q].wrote
           /\ req[q].uuid # req[r].uuid
           /\ loc \in Range(req[r].new_locations) \cap Range(req[q].new_locations)
           /\ req'[r] # req[r]) =>
              /\ req'[r].pc = "done" /\ req'[r].status = 409
              /\ Holders(files', loc) = {req[q].uuid}]_vars

\* C9: once a snapshot is created, every later read of it gives the same
\* files list, whatever happens to the file records and whatever snapshots
\* are created later.
C9_SnapshotFilesFrozen ==
    [][\A i \in 1..Len(snapshots) :
          LET filters == [uuid |-> snapshots[i].uuid] IN
          /\ get_snapshot(snapshots', filters) # NoDoc
          /\ get_snapshot(snapshots', filters).files =
                get_snapshot(snapshots, filters).files]_vars

\* C9 happens: a snapshot lists record u1, which has been deleted since,
\* and does not list record u2, which its collection's query matches now;
\* a later snapshot exists.
C9_Witness ==
    /\ Len(snapshots) = 2
    /\ snapshots[1].files = <<"u1">>
    /\ Stored(files, "u1") = {}
    /\ \E d \in Stored(files, "u2") : d.checksum = "c1"
    /\ \E k \in 1..Len(collections) :
          /\ collections[k].uuid = snapshots[1].collection_id
          /\ json_decode(collections[k].query) = [checksum |-> "c1"]

\* C11: for a cursor producing N documents, the windowing step with
\* start >= N yields nothing, for every limit, present or absent.
C11_StartPastEnd ==
    (results.ran /\ start >= Len(cursor)) => results.rows = <<>>

\* C11 happens: a cursor that produces documents, windowed from past its end
\* without a limit.
C11_Witness ==
    /\ results.ran /\ Len(cursor) > 0 /\ start >= Len(cursor) /\ limit = None
    /\ results.rows = <<>>

\* C12: without a limit, the windowing step over N documents with
\* 0 <= start < N yields every document from index start to the end of the
\* cursor, in order.
C12_NoLimitIsSuffix ==
    (results.ran /\ limit = None /\ start < Len(cursor)) =>
        results.rows = Slice(cursor, start, Len(cursor))

\* C13: Create(metadata) of an id that does not exist yet, then Get(id):
\* the document returned has the fields of the submitted metadata, with
\* their values, plus the engine-assigned meta_modify_date, create_date and
\* (when the caller gave none) id.  The Create leaves the record stored with
\* exactly those fields, and the Get returns the stored record (with its
\* links).
C13_CreateThenGet ==
    [][\A r \in Reqs :
          /\ (req[r].op = "create" /\ req'[r].pc = "done" /\ req'[r].status = 201) =>
                \E d \in Stored(files', req[r].metadata.uuid) :
                    /\ DOMAIN d = DOMAIN req[r].metadata \cup {"create_date"}
                    /\ \A k \in DOMAIN req[r].metadata : d[k] = req[r].metadata[k]
          /\ (req[r].op = "get" /\ req'[r].pc = "done" /\ req'[r].status = 200) =>
                Without(req'[r].db_file, "_links") \in Stored(files, req[r].uuid)]_vars

\* The fields of a document among `names`.
Restricted(doc, names) == [k \in (DOMAIN doc) \cap names |-> doc[k]]

\* C14: the projection always excludes the store's row identifier, and
\* otherwise includes exactly the requested fields when a non-empty list is
\* given, exactly the default set when no fields are requested and there is
\* a default, and every field when the "all fields" sentinel is given.
C14_Projection ==
    (projection.ran /\ projection.keys.kind # "other") =>
        LET keys == projection.keys
            doc == projection.doc
            none == keys.kind = "None" \/ (keys.kind = "list" /\ keys.list = <<>>)
        IN  /\ "_id" \notin DOMAIN projection.row
            /\ (keys.kind = "list" /\ keys.list # <<>>) =>
                  projection.row = Restricted(doc, Range(keys.list) \ {"_id"})
            /\ (none /\ DOMAIN projection.default # {}) =>
                  projection.row = Restricted(doc, DOMAIN projection.default)
            /\ keys.kind = "AllKeys" =>
                  projection.row = Restricted(doc, (DOMAIN doc) \ {"_id"})

\* The ids of the records of a collection.
Ids(fs) == {fs[i].uuid : i \in DOMAIN fs}

\* The request of slot r takes a step.
Steps(r) == req'[r] # req[r]

\* C15: in every interleaving an id goes from absent to present only by a
\* successful Create of that id, and from present to absent only by a
\* Delete of that id; AddLocations, Update and Replace never add or remove a
\* record, also when their target was deleted between their lookup and
\* their write.
C15_Lifecycle ==
    [][/\ \A u \in Ids(files') \ Ids(files) :
             \E r \in Reqs : /\ req[r].op = "create"
                             /\ req[r].metadata.uuid = u
                             /\ req'[r].pc = "done" /\ req'[r].status = 201
       /\ \A u \in Ids(files) \ Ids(files') :
             \E r \in Reqs : /\ req[r].op = "delete"
                             /\ req[r].uuid = u
                             /\ req'[r].pc = "done" /\ req'[r].status = 204
       /\ \A r \in Reqs :
             (Steps(r) /\ req[r].op \in {"add_locations", "update", "replace"}) =>
                 /\ Ids(files') = Ids(files)
                 /\ Len(files') = Len(files)]_vars

\* An Update or Replace has written after its target was deleted, and the
\* record is still gone.
C15_Witness ==
    \E r \in Reqs :
        /\ req[r].op \in {"update", "replace"}
        /\ req[r].pc = "done"
        /\ req[r].db_file # NoDoc
        /\ req[r].status = 500
        /\ req[r].uuid \notin Ids(files)

\* C16: Delete of a present record removes exactly that record and leaves
\* every other file record, every collection and every snapshot as they
\* were; Delete of an absent id answers NotFound and leaves the store as it
\* was.
C16_DeleteFrame ==
    [][\A r \in Reqs :
         (req[r].op = "delete" /\ Steps(r) /\ req'[r].pc = "done") =>
            IF req[r].uuid \in Ids(files)
              THEN /\ req'[r].status = 204
                   /\ files' = SelectSeq(files, LAMBDA d : d.uuid # req[r].uuid)
                   /\ Len(files') = Len(files) - 1
                   /\ collections' = collections
                   /\ snapshots' = snapshots
              ELSE /\ req'[r].status = 404
                   /\ store' = store]_vars

\* A record was deleted while another record, a collection and a snapshot
\* that lists the deleted record were stored.
C16_Witness ==
    \E r \in Reqs :
        /\ req[r].op = "delete" /\ Sent(r, 204)
        /\ files # <<>>
        /\ collections # <<>>
        /\ \E i \in DOMAIN snapshots :
              req[r].uuid \in Range(snapshots[i].files)

\* C17: an Update or a Replace whose target a concurrent Delete removes
\* after the lookup and before the write (the store reports zero records
\* modified) ends with NotFound: neither an internal failure nor a success.
C17_LostTargetNotFound ==
    [][\A r \in Reqs :
         (/\ req[r].op \in {"update", "replace"}
          /\ req[r].pc \in {"update_file", "replace_file"}
          /\ Steps(r)
          /\ req[r].uuid \notin Ids(files)) =>
            (req'[r].pc = "done" /\ req'[r].status = 404)]_vars

\* The stamp the operation of slot r takes: Create, Update and Replace stamp
\* their metadata before they write; AddLocations takes it in its write.
StampOf(r) ==
    IF req[r].op = "add_locations" THEN utcnow(req[r].uuid)
    ELSE req[r].metadata.meta_modify_date

\* The id of the record the operation of slot r writes.
WrittenBy(r) == IF req[r].op = "create" THEN req[r].metadata.uuid ELSE req[r].uuid

\* C18: every successful mutation (a brand-new Create, a replica-merge
\* Create, an AddLocations that adds a location, an Update, a Replace)
\* leaves the stored meta_modify_date of its record set to the stamp that
\* operation took.
C18_StampStored ==
    [][\A r \in Reqs :
         (/\ req[r].op \in {"create", "add_locations", "update", "replace"}
          /\ Steps(r)
          /\ files' # files) =>
            \E d \in Stored(files', WrittenBy(r)) :
                /\ "meta_modify_date" \in DOMAIN d
                /\ d.meta_modify_date = StampOf(r)]_vars

\* C19: Update writes only the fields of its partial payload, and the
\* stamp: the fields it does not touch keep the values they have in the
\* store, so that of two concurrent Updates of one record on disjoint
\* fields, in any interleaving, the record carries both changes.
C19_UpdateWritesPayloadOnly ==
    [][\A r \in Reqs :
         (/\ req[r].op = "update" /\ req[r].pc = "update_file"
          /\ req'[r].pc = "done" /\ req'[r].status = 200) =>
            \E i \in DOMAIN files :
                LET metadata == req[r].metadata IN
                /\ files[i].uuid = req[r].uuid
                /\ Len(files') = Len(files)
                /\ \A j \in DOMAIN files : j # i => files'[j] = files[j]
                /\ DOMAIN files'[i] = DOMAIN files[i] \cup DOMAIN metadata
                /\ \A k \in DOMAIN metadata : files'[i][k] = metadata[k]
                /\ \A k \in DOMAIN files[i] \ DOMAIN metadata :
                      files'[i][k] = files[i][k]]_vars

\* Two Updates of one record looked it up before either wrote, one changed
\* the logical name and the other the checksum, and both have written: the
\* second writer's lookup is stale, and the record carries both changes.
C19_Witness ==
    \E r \in Reqs : \E d \in Stored(files, req[r].uuid) :
        /\ req[r].op = "update" /\ Sent(r, 200)
        /\ DOMAIN req[r].metadata = {"checksum", "meta_modify_date"}
        /\ req[r].db_file.logical_name = "n1"
        /\ d.logical_name = "n2"
        /\ d.checksum = "c2"

\* The validator refuses the Update of slot r: at the lookup, because the
\* payload changes the immutable id of the record; before the write, because
\* the stored document merged with the payload is not complete.
Refused(r) ==
    \/ /\ req[r].pc = "get_file"
       /\ \E d \in Stored(files, req[r].uuid) :
             has_forbidden_attributes_modification(req[r].metadata, d)
    \/ /\ req[r].pc = "pathfinder"
       /\ contains_existing_filepaths(files, req[r].metadata, req[r].uuid) = <<>>
       /\ ~validate_metadata_modification(Merge(req[r].db_file, req[r].metadata))

\* C20: an Update of an absent id answers NotFound; an Update the validator
\* refuses (a change of an immutable field, or a merged document that is
\* not complete) answers an error; in both cases, and whenever an Update
\* answers an error, the store is left as it was.
C20_UpdateRefused ==
    [][\A r \in Reqs :
         (req[r].op = "update" /\ Steps(r)) =>
            /\ (req[r].pc = "get_file" /\ req[r].uuid \notin Ids(files)) =>
                  (req'[r].pc = "done" /\ req'[r].status = 404)
            /\ Refused(r) =>
                  (req'[r].pc = "done" /\ req'[r].status = 400)
            /\ (req'[r].pc = "done" /\ req'[r].status >= 400) => store' = store
            /\ req[r].pc # "update_file" => store' = store]_vars

\* The Update of a stored record was refused because the merged document is
\* not complete.
C20_Witness ==
    \E r \in Reqs :
        /\ req[r].op = "update" /\ Sent(r, 400)
        /\ req[r].detail = <<"validation">>
        /\ req[r].uuid \in Ids(files)
        /\ ~validate_metadata_modification(req[r].db_file)

\* C21: a successful Replace leaves the stored record equal to the incoming
\* document with the id forced to the target id and a fresh
\* meta_modify_date: a field of the previous record that the incoming
\* document lacks is gone, and the id of the record is unchanged.
C21_ReplaceIsWhole ==
    [][\A r \in Reqs :
         (/\ req[r].op = "replace" /\ req[r].pc = "replace_file"
          /\ req'[r].pc = "done" /\ req'[r].status = 200) =>
            \E i \in DOMAIN files :
                LET incoming == req[r].metadata IN
                /\ files[i].uuid = req[r].uuid
                /\ Len(files') = Len(files)
                /\ \A j \in DOMAIN files : j # i => files'[j] = files[j]
                /\ files'[i].uuid = req[r].uuid
                /\ DOMAIN files'[i] = DOMAIN incoming
                /\ \A k \in DOMAIN incoming \ {"uuid"} : files'[i][k] = incoming[k]
                /\ files'[i].meta_modify_date \notin DatesOf(files[i])]_vars

\* A record that carried a data_type was replaced by a document without
\* one and without an id: the stored record has the new logical name, the
\* target id and no data_type.
C21_Witness ==
    \E r \in Reqs : \E d \in Stored(files, req[r].uuid) :
        /\ req[r].op = "replace" /\ Sent(r, 200)
        /\ "data_type" \in DOMAIN req[r].db_file
        /\ "data_type" \notin DOMAIN d
        /\ d.logical_name = "n2"

Resolves(uid) ==
    \E i \in DOMAIN collections :
        collections[i].uuid = uid \/ collections[i].collection_name = uid

\* C23: a Snapshot Create whose id already names a stored snapshot ends in
\* Conflict and leaves that snapshot, its files list included, as it was; a
\* Snapshot Create on a collection that resolves neither by id nor by name
\* ends in a caller error and stores no snapshot.
C23_SnapshotRefused ==
    [][\A r \in Reqs :
         (req[r].op = "create_snapshot" /\ InFlight(r) /\ Steps(r)) =>
            /\ (req[r].pc = "get_snapshot"
                  /\ req[r].metadata.uuid \in Ids(snapshots)) =>
                  (req'[r].pc = "done" /\ req'[r].status = 409 /\ store' = store)
            /\ (req'[r].pc = "done" /\ ~Resolves(req[r].uuid)) =>
                  (req'[r].status = 400 /\ store' = store)
            /\ ~Resolves(req[r].uuid) =>
                  req'[r].pc \in {"get_collection_by_name", "done"}]_vars

\* A Snapshot Create was refused with Conflict while the snapshot of that id
\* listed a file.
C23_Witness ==
    \E r \in Reqs :
        /\ req[r].op = "create_snapshot" /\ Sent(r, 409)
        /\ \E d \in Stored(snapshots, req[r].metadata.uuid) : d.files # <<>>

C25_CollectionConflict ==
    [][\A r \in Reqs :
         (/\ req[r].op = "create_collection" /\ req[r].pc = "get_collection"
          /\ Steps(r)
          /\ req[r].metadata.uuid \in Ids(collections)) =>
            /\ req'[r].pc = "done" /\ req'[r].status = 409
            /\ store' = store]_vars

\* A Collection Create was refused with Conflict; its document differs from
\* the stored one of that id in name, owner and query.
C25_Witness ==
    \E r \in Reqs :
        /\ req[r].op = "create_collection" /\ Sent(r, 409)
        /\ \E d \in Stored(collections, req[r].metadata.uuid) :
              /\ d.collection_name # req[r].metadata.collection_name
              /\ d.owner # req[r].metadata.owner
              /\ d.query # req[r].metadata.query

\* C26: Collection Get(x) returns the collection whose id is x whenever
\* there is one, also when another collection is named x; only when no
\* collection has the id x does it return a collection named x; it ends in
\* NotFound when there is neither.
C26_GetByIdThenName ==
    [][\A r \in Reqs :
         (req[r].op = "get_collection" /\ InFlight(r) /\ req'[r].pc = "done") =>
            LET x == req[r].uuid
                found == Without(req'[r].ret, "_links")
                byId == Stored(collections, x)
                byName == {collections[i] : i \in
                             {j \in DOMAIN collections :
                                 collections[j].collection_name = x}}
            IN  IF byId # {} THEN req'[r].status = 200 /\ found \in byId
                ELSE IF byName # {} THEN req'[r].status = 200 /\ found \in byName
                ELSE req'[r].status = 404]_vars

\* The collection of id x was returned while a collection stored before it
\* is named x.
C26_Witness ==
    \E r \in Reqs :
        /\ req[r].op = "get_collection" /\ Sent(r, 200)
        /\ req[r].ret.uuid = req[r].uuid
        /\ \E i, j \in DOMAIN collections :
              /\ i < j
              /\ collections[i].collection_name = req[r].uuid
              /\ collections[j].uuid = req[r].uuid

\* C27: a collection or a snapshot, once stored, stays stored, with the same
\* document, in every later state: no operation updates or deletes a
\* collection or a snapshot.
C27_CatalogKept ==
    [][/\ \A i \in DOMAIN collections :
             i \in DOMAIN collections' /\ collections'[i] = collections[i]
       /\ \A i \in DOMAIN snapshots :
             i \in DOMAIN snapshots' /\ snapshots'[i] = snapshots[i]]_vars

\* Two snapshots and a collection are stored, and a file record was
\* replaced since.
C27_Witness ==
    /\ Len(snapshots) = 2
    /\ collections # <<>>
    /\ \E r \in Reqs : req[r].op = "replace" /\ Sent(r, 200)

\* Slot r is about to make an update, replace or location-append write.
AtWrite(r) ==
    \/ req[r].op \in {"update", "create"} /\ req[r].pc = "update_file"
    \/ req[r].op = "replace" /\ req[r].pc = "replace_file"
    \/ req[r].op = "add_locations" /\ req[r].pc = "append"

\* The write of slot r is taken for successful: Update, Replace and the
\* replica merge answer 200, AddLocations goes on to re-read the record.
WriteSucceeds(r) ==
    IF req[r].op = "add_locations"
      THEN req'[r].pc = "reread" /\ req'[r].wrote
      ELSE req'[r].pc = "done" /\ req'[r].status = 200

\* C28: when the result of an update, replace or location-append write
\* carries a modified-count that cannot be determined (None), the operation
\* is treated as successful; when it carries a number other than 1, the
\* operation fails.
C28_ModifiedCount ==
    [][\A r \in Reqs :
         (AtWrite(r) /\ Steps(r)) =>
            /\ ~nModified => WriteSucceeds(r)
            /\ (nModified /\ files' = files) =>
                  (req'[r].pc = "done" /\ req'[r].status = 500)
            /\ (nModified /\ files' # files) => WriteSucceeds(r)]_vars

\* On a server that does not report nModified an Update was answered 200
\* although its target was deleted before it wrote.
C28_Witness ==
    \E r \in Reqs :
        /\ ~nModified
        /\ req[r].op = "update" /\ Sent(r, 200)
        /\ req[r].uuid \notin Ids(files)

C30_NoReplicaLost ==
    [][\A r \in Reqs :
         (/\ req[r].op = "create" /\ req[r].pc = "update_file"
          /\ req'[r].pc = "done" /\ req'[r].status = 200
          /\ \A q \in Reqs \ {r} : req[q].pc = "idle") =>
            \E i \in DOMAIN files :
                /\ files[i].uuid = req[r].metadata.uuid
                /\ Range(files[i].locations) \cup Range(req[r].metadata.locations)
                      \subseteq Range(files'[i].locations)]_vars

\* Slots r and q serve two AddLocations on the same record, both in flight,
\* whose batches share no location.
Together(r, q) ==
    /\ r # q
    /\ req[r].op = "add_locations" /\ req[q].op = "add_locations"
    /\ InFlight(r) /\ InFlight(q)
    /\ req[r].uuid = req[q].uuid
    /\ Range(req[r].metadata.locations) \cap Range(req[q].metadata.locations) = {}

\* The batch of slot r is new and otherwise unused: the loop found every
\* location of it on no record, and no record holds any of them now; the
\* target record is stored.
NewAndUnused(r) ==
    /\ req[r].new_locations = req[r].metadata.locations
    /\ Stored(files, req[r].uuid) # {}
    /\ \A loc \in Range(req[r].new_locations) : Holders(files, loc) = {}

\* C31: when two AddLocations requests on the same record with disjoint
\* batches of new, otherwise unused locations run concurrently, in any
\* interleaving, both succeed and the record ends with its previous
\* locations and both batches: each one's write succeeds and adds its whole
\* batch to whatever the record holds, the other's batch included when the
\* other wrote first, and each one's re-read of the stored record answers
\* 200 with the record as stored.
C31_DisjointBatchesUnion ==
    [][\A r, q \in Reqs :
         (Together(r, q) /\ Steps(r)) =>
            /\ (req[r].pc = "append" /\ NewAndUnused(r)) =>
                  /\ req'[r].pc = "reread" /\ req'[r].wrote
                  /\ LocSet(files', req[r].uuid) =
                        LocSet(files, req[r].uuid) \cup Range(req[r].new_locations)
                  /\ Len(files') = Len(files)
            /\ (req[r].pc = "reread" /\ Stored(files, req[r].uuid) # {}) =>
                  /\ req'[r].pc = "done" /\ req'[r].status = 200
                  /\ files' = files
                  /\ req'[r].db_file \in Stored(files, req[r].uuid)]_vars

\* Both requests have written and the record holds both batches.
C31_Witness ==
    \E r, q \in Reqs :
        /\ Together(r, q)
        /\ req[r].pc = "reread" /\ req[q].pc = "reread"
        /\ req[r].db_file = req[q].db_file
        /\ req[r].new_locations # <<>> /\ req[q].new_locations # <<>>
        /\ Range(req[r].new_locations) \cup Range(req[q].new_locations)
              \subseteq LocSet(files, req[r].uuid)

\* C32: a snapshot created for a collection stores as collection_id the id
\* of the collection the request resolved, whether the request addressed the
\* collection by its id or by its collection_name, so that listing the
\* collection's snapshots, which selects on collection_id = the collection's
\* id, returns it.
C32_SnapshotCollectionId ==
    [][\A r \in Reqs :
         (/\ req[r].op = "create_snapshot" /\ req[r].pc = "create_snapshot"
          /\ req'[r].pc = "done" /\ req'[r].status = 201) =>
            \E i \in DOMAIN snapshots' :
                /\ snapshots'[i].uuid = req[r].metadata.uuid
                /\ snapshots'[i].collection_id = req[r].ret.uuid]_vars

\* A Create is in flight at slot r, its id is not stored and its
\* logical_name is that of a stored record.
NameTaken(r) ==
    /\ req[r].op = "create" /\ InFlight(r)
    /\ req[r].metadata.uuid \notin Ids(files)
    /\ \E i \in DOMAIN files :
          files[i].logical_name = req[r].metadata.logical_name

ReplicaHeld(r) ==
    /\ req[r].op = "create"
    /\ \E d \in Stored(files, req[r].metadata.uuid) :
          /\ d.checksum = req[r].metadata.checksum
          /\ Range(d.locations) \cap Range(req[r].metadata.locations) # {}

\* C34: a Create with an existing id, the same checksum and at least one
\* incoming location already among that record's locations ends in Conflict
\* and leaves the record unchanged, even if other incoming locations are
\* new: the location pre-check answers 409 when it meets the record, and
\* the lookup by id answers 409 "Replica has already been added" when it
\* does.
C34_ReplicaAlreadyAdded ==
    [][\A r \in Reqs :
         (ReplicaHeld(r) /\ Steps(r) /\ req[r].pc \in {"pathfinder", "get_file"}) =>
            /\ files' = files
            /\ req'[r].pc = "done" /\ req'[r].status = 409
            /\ req[r].pc = "get_file" =>
                  req'[r].detail = <<"Replica has already been added",
                                     req[r].metadata.uuid>>]_vars

\* C34 happens: the lookup by id refused a replica of which one location is
\* on the record and another is new.
C34_Witness ==
    \E r \in Reqs :
        /\ req[r].op = "create" /\ Sent(r, 409)
        /\ req[r].detail = <<"Replica has already been added", req[r].metadata.uuid>>
        /\ ReplicaHeld(r)
        /\ Range(req[r].metadata.locations) \ LocSet(files, req[r].metadata.uuid) # {}

\* C35: when two Collection Creates, or two Snapshot Creates, with the same
\* not-yet-existing id run concurrently and both pass the existence lookup
\* before either inserts, exactly one document with that id is stored and
\* the request that loses ends in the Conflict outcome of the sequential
\* duplicate-id case: an insert that meets its id in the store stores
\* nothing and answers 409.
C35_RacingCatalogCreates ==
    [][\A r \in Reqs :
         /\ (/\ req[r].op = "create_collection" /\ req[r].pc = "create_collection"
             /\ Steps(r)
             /\ req[r].metadata.uuid \in Ids(collections)) =>
                /\ collections' = collections
                /\ req'[r].pc = "done" /\ req'[r].status = 409
         /\ (/\ req[r].op = "create_snapshot" /\ req[r].pc = "create_snapshot"
             /\ Steps(r)
             /\ req[r].metadata.uuid \in Ids(snapshots)) =>
                /\ snapshots' = snapshots
                /\ req'[r].pc = "done" /\ req'[r].status = 409]_vars

\* An AddLocations is in flight at slot r and has written nothing; its
\* record is stored and holds every location of the request's list.
AllRegistered(r) ==
    /\ req[r].op = "add_locations" /\ InFlight(r) /\ ~req[r].wrote
    /\ Stored(files, req[r].uuid) # {}
    /\ Range(req[r].metadata.locations) \subseteq LocSet(files, req[r].uuid)

\* C36: an AddLocations request in which every candidate location is
\* already registered on the target record issues no store write at all:
\* the record, its meta_modify_date included, is the same before and after,
\* and the response is the unchanged record.
C36_NothingToAdd ==
    [][\A r \in Reqs :
         (AllRegistered(r) /\ Steps(r)) =>
            /\ files' = files
            /\ req'[r].new_locations = <<>>
            /\ req'[r].pc # "append"
            /\ req'[r].pc = "done" =>
                  /\ req'[r].status = 200
                  /\ ~req'[r].wrote
                  /\ req'[r].db_file \in Stored(files', req[r].uuid)]_vars

\* C36 happens: a request listing two locations, both on the record, was
\* answered with the record as stored.
C36_Witness ==
    \E r \in Reqs :
        /\ req[r].op = "add_locations" /\ Sent(r, 200) /\ ~req[r].wrote
        /\ Len(req[r].metadata.locations) = 2
        /\ Range(req[r].metadata.locations) \subseteq LocSet(files, req[r].uuid)
        /\ req[r].db_file \in Stored(files, req[r].uuid)
        /\ req[r].db_file.meta_modify_date > 1

\* How often x occurs in the sequence.
Occurrences(seq, x) == Cardinality({i \in 1..Len(seq) : seq[i] = x})

\* The AddLocations of slot r is about to write a batch that lists a
\* location more than once.
RepeatedInBatch(r) ==
    /\ req[r].op = "add_locations" /\ req[r].pc = "append"
    /\ ~NoDup(req[r].new_locations)

\* C37: an AddLocations batch that lists the same new, unused location more
\* than once succeeds, and the target record's locations afterwards contain
\* that location exactly once.
C37_RepeatedLocationOnce ==
    [][\A r \in Reqs :
         /\ (RepeatedInBatch(r) /\ Steps(r)) =>
               /\ req'[r].pc = "reread" /\ req'[r].wrote
               /\ \A d \in Stored(files', req[r].uuid) :
                     \A loc \in Range(req[r].new_locations) :
                         Occurrences(d.locations, loc) = 1
         /\ (/\ req[r].op = "add_locations" /\ req[r].pc = "reread"
             /\ ~NoDup(req[r].new_locations) /\ Steps(r)) =>
               /\ req'[r].pc = "done" /\ req'[r].status = 200
               /\ \A loc \in Range(req[r].new_locations) :
                     Occurrences(req'[r].db_file.locations, loc) = 1]_vars

\* C37 happens: a batch that listed location c twice was answered 200 and
\* the record holds c.
C37_Witness ==
    \E r \in Reqs :
        /\ req[r].op = "add_locations" /\ Sent(r, 200) /\ req[r].wrote
        /\ req[r].metadata.locations = <<"c", "c">>
        /\ req[r].new_locations = <<"c", "c">>
        /\ \E d \in Stored(files, req[r].uuid) : Occurrences(d.locations, "c") = 1

====
